---- MODULE Spec2Model ----
(***************************************************************************)
(* The xbstream format writer (xbstream_write.cc): several threads, each   *)
(* owning one xb_wstream_file_t of a shared xb_wstream_t, emit chunks to a *)
(* sink under the stream mutex.                                            *)
(*                                                                         *)
(* Bytes are the integers 0..255, the buffers are sequences of bytes, and  *)
(* the sink is the log of the calls made to the write callback, in order.  *)
(***************************************************************************)
EXTENDS Integers, Sequences, FiniteSets, TLC

(***************************************************************************)
(* Bounds of the model.  The two size limits of the program are scaled     *)
(* down: the writer only compares lengths against them.                    *)
(***************************************************************************)
\* XB_STREAM_MIN_CHUNK_SIZE, 10 MiB in the program (xbstream_write.cc:35)
XB_STREAM_MIN_CHUNK_SIZE == 3
\* FN_REFLEN of my_io.h, the longest path xb_stream_write_open accepts
FN_REFLEN == 2
\* write/write_sparse calls of one run, plus the sink calls of the run that
\* do not return the length asked
MaxEvents == 3

\* The threads; thread h owns the handle h.  Thread 1 makes any calls the
\* bound allows; thread 2 competes with it for the stream: it opens a file,
\* makes at most one write, of a full chunk, and closes.
Handles == {1, 2}

(***************************************************************************)
(* Byte codec (my_byteorder.h as used by the writer).                      *)
(***************************************************************************)
\* int4store(ptr, v): the low 32 bits of v, little-endian.
int4store(v) ==
  << v % 256, (v \div 256) % 256, (v \div 65536) % 256,
     (v \div 16777216) % 256 >>

\* int8store(ptr, v): the low 64 bits of v, little-endian.
int8store(v) ==
  int4store(v) \o
  << ((v \div 65536) \div 65536) % 256,
     (((v \div 65536) \div 65536) \div 256) % 256,
     (((v \div 65536) \div 65536) \div 65536) % 256,
     (((v \div 65536) \div 65536) \div 16777216) % 256 >>

\* XB_STREAM_CHUNK_MAGIC "XBSTCK01", without its NUL
XB_STREAM_CHUNK_MAGIC == <<88, 66, 83, 84, 67, 75, 48, 49>>

\* xb_chunk_type_t: 'P', 'S', 'E'
XB_CHUNK_TYPE_PAYLOAD == 80
XB_CHUNK_TYPE_SPARSE == 83
XB_CHUNK_TYPE_EOF == 69

(***************************************************************************)
(* CRC-32 (ISO 3309), chainable, on 32-bit values kept as four bytes,      *)
(* least significant first.                                                *)
(***************************************************************************)
RECURSIVE XorByte(_, _)
XorByte(a, b) ==
  IF a = 0 THEN b
  ELSE IF b = 0 THEN a
  ELSE ((a + b) % 2) + 2 * XorByte(a \div 2, b \div 2)

\* (Below, an operand that is used more than once is bound by "\in {..}",
\* which has it computed once wherever the operator is evaluated.)
Xor32(x0, y0) ==
  CHOOSE r \in { << XorByte(x[1], y[1]), XorByte(x[2], y[2]),
                    XorByte(x[3], y[3]), XorByte(x[4], y[4]) >> :
                 x \in {x0}, y \in {y0} } : TRUE

\* x >> 1
Shr32(x0) ==
  CHOOSE r \in { << (x[1] \div 2) + 128 * (x[2] % 2),
                    (x[2] \div 2) + 128 * (x[3] % 2),
                    (x[3] \div 2) + 128 * (x[4] % 2), x[4] \div 2 >> :
                 x \in {x0} } : TRUE

\* 0xEDB88320
CrcPoly == <<32, 131, 184, 237>>
CrcOnes == <<255, 255, 255, 255>>

RECURSIVE CrcBits(_, _)
\* c shifted through the polynomial n times.
CrcBits(c0, n) ==
  IF n = 0 THEN c0
  ELSE CHOOSE r \in { CrcBits(IF c[1] % 2 = 1 THEN Xor32(Shr32(c), CrcPoly)
                               ELSE Shr32(c), n - 1) :
                      c \in {c0} } : TRUE

RECURSIVE CrcTableOf(_, _)
\* The table entries of lo .. hi, in order.
CrcTableOf(lo, hi) ==
  IF lo = hi THEN << CrcBits(<<lo, 0, 0, 0>>, 8) >>
  ELSE CrcTableOf(lo, (lo + hi) \div 2)
         \o CrcTableOf(((lo + hi) \div 2) + 1, hi)

\* The table of the byte-wise algorithm: the entry of n (at n + 1) is n
\* shifted through the polynomial eight times.
CrcTable == CrcTableOf(0, 255)

\* One byte b into the register c: table[(c ^ b) & 0xff] ^ (c >> 8).
CrcStep(c0, b) ==
  CHOOSE r \in { Xor32(CrcTable[XorByte(c[1], b) + 1],
                       <<c[2], c[3], c[4], 0>>) :
                 c \in {c0} } : TRUE

RECURSIVE CrcBytes(_, _)
CrcBytes(c0, bytes0) ==
  CHOOSE r \in { IF bytes = <<>> THEN c
                 ELSE CrcBytes(CrcStep(c, Head(bytes)), Tail(bytes)) :
                 c \in {c0}, bytes \in {bytes0} } : TRUE

\* crc32_iso3309(crc, buf, len)
crc32_iso3309(crc, bytes) ==
  Xor32(CrcBytes(Xor32(crc, CrcOnes), bytes), CrcOnes)

(***************************************************************************)
(* State.                                                                  *)
(***************************************************************************)
VARIABLES
  mutex,          \* xb_wstream_struct.mutex: 0 when free, else the holder
  sink,           \* the calls made to the write callback, in order
  faults,         \* sink calls so far that did not return the length asked
  nops,           \* write/write_sparse calls made so far, per thread
  state,          \* per handle: "none", "open" or "freed" (my_free(file))
  path,           \* xb_wstream_file_struct.path
  path_len,       \* xb_wstream_file_struct.path_len
  chunk,          \* the bytes chunk[0 .. chunk_ptr)
  chunk_free,     \* xb_wstream_file_struct.chunk_free
  sparse_map_buf, \* the encoded sparse map of the last chunk
  offset,         \* xb_wstream_file_struct.offset
  pc,             \* per thread: where it is in the call it is making
  op,             \* the public operation in progress
  call,           \* the emission in progress: "flush", "chunk" or "eof"
  buf,            \* the public operation's buf[0 .. len)
  smap,           \* the public operation's sparse_map[0 .. sparse_map_size)
  ebuf,           \* xb_stream_write_chunk's buf[0 .. len)
  emap,           \* xb_stream_write_chunk's sparse_map
  tmpbuf,         \* the header bytes tmpbuf[0 .. ptr)
  checksum,       \* xb_stream_write_chunk's checksum
  nemit,          \* emissions this thread has started (numbers them in sink)
  ret,            \* what the thread's last public call returned
  last,           \* the thread's last write/write_sparse/close call
  written         \* what the calls that returned 0 were given, per handle

shared == <<mutex, sink, faults, nops>>
filev == <<state, path, path_len, chunk, chunk_free, sparse_map_buf, offset>>
framev == <<pc, op, call, buf, smap, ebuf, emap, tmpbuf, checksum, nemit>>
ghostv == <<ret, last, written>>
vars == <<shared, filev, framev, ghostv>>

(***************************************************************************)
(* Inputs.                                                                 *)
(***************************************************************************)
\* A path of n characters, "xyxy..."
PathOfLen(n) == [i \in 1..n |-> IF i % 2 = 1 THEN 120 ELSE 121]

\* The paths given to open: a short one, the longest accepted, one too long.
\* Both threads may open the short one, so two handles may carry one path.
Paths(h) ==
  IF h = 1 THEN {PathOfLen(1), PathOfLen(FN_REFLEN + 1)}
  ELSE {PathOfLen(1), PathOfLen(FN_REFLEN)}

\* The lengths given to write.
DataLens(h) ==
  IF h = 1
    THEN {0, 1, XB_STREAM_MIN_CHUNK_SIZE - 1, XB_STREAM_MIN_CHUNK_SIZE}
    ELSE {XB_STREAM_MIN_CHUNK_SIZE}

\* The bytes of a call: the writer never looks into them, so they only have
\* to tell the calls and the positions apart.
DataOf(h, n) == [i \in 1..n |-> 64 * h + 8 * nops[h] + i]

\* The sparse maps given to write_sparse (ds_sparse_chunk_t entries); the
\* payload holds the len bytes of every entry, one byte for the empty map.
SparseMaps(h) ==
  IF h = 1
    THEN { <<>>, << [skip |-> 1024, len |-> 1], [skip |-> 0, len |-> 1] >> }
    ELSE {}

RECURSIVE SumLen(_)
SumLen(m) == IF m = <<>> THEN 0 ELSE Head(m).len + SumLen(Tail(m))

RECURSIVE SumSkip(_)
SumSkip(m) == IF m = <<>> THEN 0 ELSE Head(m).skip + SumSkip(Tail(m))

SparsePayloadLen(m) == IF m = <<>> THEN 1 ELSE SumLen(m)

NoLast ==
  [op |-> "none", buf |-> <<>>, smap |-> <<>>, chunk |-> <<>>,
   chunk_free |-> 0, offset |-> 0, em |-> 0, before |-> <<>>]

NoWritten == [bytes |-> <<>>, maps |-> <<>>, size |-> 0]

Init ==
  /\ mutex = 0
  /\ sink = <<>>
  /\ faults = 0
  /\ nops = [h \in Handles |-> 0]
  /\ state = [h \in Handles |-> "none"]
  /\ path = [h \in Handles |-> <<>>]
  /\ path_len = [h \in Handles |-> 0]
  /\ chunk = [h \in Handles |-> <<>>]
  /\ chunk_free = [h \in Handles |-> 0]
  /\ sparse_map_buf = [h \in Handles |-> <<>>]
  /\ offset = [h \in Handles |-> 0]
  /\ pc = [h \in Handles |-> "idle"]
  /\ op = [h \in Handles |-> "none"]
  /\ call = [h \in Handles |-> "none"]
  /\ buf = [h \in Handles |-> <<>>]
  /\ smap = [h \in Handles |-> <<>>]
  /\ ebuf = [h \in Handles |-> <<>>]
  /\ emap = [h \in Handles |-> <<>>]
  /\ tmpbuf = [h \in Handles |-> <<>>]
  /\ checksum = [h \in Handles |-> <<0, 0, 0, 0>>]
  /\ nemit = [h \in Handles |-> 0]
  /\ ret = [h \in Handles |-> "-"]
  /\ last = [h \in Handles |-> NoLast]
  /\ written = [h \in Handles |-> NoWritten]

RECURSIVE SumOver(_, _)
SumOver(f, S) ==
  IF S = {} THEN 0
  ELSE LET x == CHOOSE y \in S : TRUE IN f[x] + SumOver(f, S \ {x})

\* What the run has used of its bound.
Events == faults + SumOver(nops, Handles)

\* Whether thread h may make one more write/write_sparse call.
MayCall(h) == Events < MaxEvents /\ (h = 1 \/ nops[h] = 0)

(***************************************************************************)
(* The sink callback.  It returns the length asked, or fails with -1, or   *)
(* returns short (one byte less than asked).                               *)
(***************************************************************************)
SinkRets(n) ==
  {n} \cup (IF Events < MaxEvents
              THEN {-1} \cup (IF n > 0 THEN {n - 1} ELSE {})
              ELSE {})

\* One call of file->write(file, userdata, bytes, Len(bytes)) returning r.
SinkCall(h, part, bytes, r) ==
  /\ sink' = Append(sink, [file |-> h, em |-> nemit[h], part |-> part,
                           bytes |-> bytes, ret |-> r])
  /\ faults' = IF r = Len(bytes) THEN faults ELSE faults + 1

\* SinkFailed that takes every return but the length asked for a failure.
SinkFailedUnlessFull(r, n) == r # n

\* The test the writer makes on what the callback returned for n bytes
\* asked: "== -1".
SinkFailed(r, n) == r = -1

(***************************************************************************)
(* xb_stream_write_chunk up to its lock: header, sparse map, checksum.     *)
(***************************************************************************)
\* ChunkType that takes every chunk for a sparse one.
ChunkTypeAlwaysSparse(m) == XB_CHUNK_TYPE_SPARSE

\* The chunk type: "sparse_map_size > 0 ? XB_CHUNK_TYPE_SPARSE :
\* XB_CHUNK_TYPE_PAYLOAD".
ChunkType(m) ==
  IF Len(m) > 0 THEN XB_CHUNK_TYPE_SPARSE ELSE XB_CHUNK_TYPE_PAYLOAD

\* The header bytes written before the mutex is taken.
HeaderPrefix(h, b, m) ==
  XB_STREAM_CHUNK_MAGIC \o <<0>> \o <<ChunkType(m)>>
    \o int4store(path_len[h]) \o SubSeq(path[h], 1, path_len[h])
    \o (IF Len(m) > 0 THEN int4store(Len(m)) ELSE <<>>)
    \o int8store(Len(b))

RECURSIVE EncodeSparseMapLenFirst(_)
\* EncodeSparseMap that stores len before skip.
EncodeSparseMapLenFirst(m) ==
  IF m = <<>> THEN <<>>
  ELSE int4store(Head(m).len) \o int4store(Head(m).skip)
         \o EncodeSparseMapLenFirst(Tail(m))

RECURSIVE EncodeSparseMap(_)
\* The (skip, len) pairs stored into sparse_map_buf.
EncodeSparseMap(m) ==
  IF m = <<>> THEN <<>>
  ELSE int4store(Head(m).skip) \o int4store(Head(m).len)
         \o EncodeSparseMap(Tail(m))

\* The call xb_stream_write_chunk(file, b, Len(b), Len(m), m), as emission c.
StartChunk(h, c, b, m) ==
  /\ call' = [call EXCEPT ![h] = c]
  /\ ebuf' = [ebuf EXCEPT ![h] = b]
  /\ emap' = [emap EXCEPT ![h] = m]
  /\ tmpbuf' = [tmpbuf EXCEPT ![h] = HeaderPrefix(h, b, m)]
  /\ sparse_map_buf' =
       [sparse_map_buf EXCEPT
          ![h] = IF Len(m) > 0 THEN EncodeSparseMap(m) ELSE @]
  /\ checksum' =
       [checksum EXCEPT
          ![h] = crc32_iso3309(
                   crc32_iso3309(<<0, 0, 0, 0>>,
                                 IF Len(m) > 0 THEN EncodeSparseMap(m)
                                 ELSE <<>>),
                   b)]
  /\ nemit' = [nemit EXCEPT ![h] = @ + 1]
  /\ pc' = [pc EXCEPT ![h] = "lock"]

\* The call xb_stream_write_eof(file): it locks first.
StartEof(h) ==
  /\ call' = [call EXCEPT ![h] = "eof"]
  /\ nemit' = [nemit EXCEPT ![h] = @ + 1]
  /\ pc' = [pc EXCEPT ![h] = "lock"]
  /\ UNCHANGED <<ebuf, emap, tmpbuf, sparse_map_buf, checksum>>

\* Contribution that leaves the skips of the sparse map out.
ContributionNoSkip(m, len) == len

\* What offset gains at the end of a chunk emission.
Contribution(m, len) == SumSkip(m) + len

(***************************************************************************)
(* The public operations: each makes two internal calls, and returns 1 as  *)
(* soon as one of them returns 1.                                          *)
(***************************************************************************)
\* Steps whose close emits the EOF chunk before it flushes.
StepsEofFirst(o) ==
  IF o = "close" THEN <<"eof", "flush">> ELSE <<"flush", "chunk">>

\* Steps whose write and write_sparse do not flush the buffer first.
StepsNoFlush(o) ==
  IF o = "close" THEN <<"flush", "eof">> ELSE <<"chunk">>

\* The internal calls of write ("if (xb_stream_flush(file)) return 1; return
\* xb_stream_write_chunk(...)"), of write_sparse (the same) and of close
\* ("xb_stream_flush(file) || xb_stream_write_eof(file)"), in order.
Steps(o) ==
  IF o = "close" THEN <<"flush", "eof">> ELSE <<"flush", "chunk">>

\* StopsOn that never stops: every internal call is made whatever the one
\* before it returned.
StopsOnNever(o, rc) == FALSE

\* Whether the operation stops at an internal call that returned rc.
StopsOn(o, rc) == rc # 0

\* The place of internal call c in operation o.
Pos(o, c) == CHOOSE k \in 1..Len(Steps(o)) : Steps(o)[k] = c

\* SkipFlush that skips nothing: a flush emits a chunk of its buffer also
\* when the buffer is empty.
SkipFlushNever(o, k, ch) == k

RECURSIVE SkipFlush(_, _, _)
\* xb_stream_flush returns 0 at once when the buffer ch is empty: the first
\* internal call of o, from the k-th on, that emits something.
SkipFlush(o, k, ch) ==
  IF k <= Len(Steps(o)) /\ Steps(o)[k] = "flush" /\ ch = <<>>
    THEN SkipFlush(o, k + 1, ch)
    ELSE k

\* The public operation o of thread h, given b and m, returns rc.
Return(h, o, b, m, rc) ==
  /\ pc' = [pc EXCEPT ![h] = "idle"]
  /\ op' = [op EXCEPT ![h] = "none"]
  /\ call' = [call EXCEPT ![h] = "none"]
  /\ buf' = [buf EXCEPT ![h] = <<>>]
  /\ smap' = [smap EXCEPT ![h] = <<>>]
  /\ ebuf' = [ebuf EXCEPT ![h] = <<>>]
  /\ emap' = [emap EXCEPT ![h] = <<>>]
  /\ tmpbuf' = [tmpbuf EXCEPT ![h] = <<>>]
  /\ checksum' = [checksum EXCEPT ![h] = <<0, 0, 0, 0>>]
  /\ ret' = [ret EXCEPT ![h] = IF rc = 0 THEN "0" ELSE "1"]
  /\ written' =
       [written EXCEPT
          ![h] = IF rc = 0 /\ o # "close"
                   THEN [bytes |-> @.bytes \o b,
                         maps |-> IF m = <<>> THEN @.maps
                                  ELSE Append(@.maps, m),
                         size |-> @.size + SumSkip(m) + Len(b)]
                   ELSE @]
  /\ UNCHANGED nemit

\* xb_stream_write_close's tail: my_free(file->sparse_map_buf); my_free(file)
Free(h) ==
  /\ state' = [state EXCEPT ![h] = "freed"]
  /\ sparse_map_buf' = [sparse_map_buf EXCEPT ![h] = <<>>]

\* Operation o of thread h returns rc; close frees the handle first.
Leave(h, o, b, m, rc) ==
  /\ Return(h, o, b, m, rc)
  /\ IF o = "close" THEN Free(h) ELSE UNCHANGED <<state, sparse_map_buf>>

\* Thread h, in operation o given b and m, goes on from the k-th internal
\* call, its buffer holding ch: up to the next lock, or to the return.
Begin(h, o, b, m, k, ch) ==
  LET k1 == SkipFlush(o, k, ch) IN
  IF k1 > Len(Steps(o))
    THEN Leave(h, o, b, m, 0)
    ELSE /\ op' = [op EXCEPT ![h] = o]
         /\ buf' = [buf EXCEPT ![h] = b]
         /\ smap' = [smap EXCEPT ![h] = m]
         /\ UNCHANGED <<state, ret, written>>
         /\ CASE Steps(o)[k1] = "flush" -> StartChunk(h, "flush", ch, <<>>)
              [] Steps(o)[k1] = "chunk" -> StartChunk(h, "chunk", b, m)
              [] Steps(o)[k1] = "eof" -> StartEof(h)

\* Resume whose flush resets chunk_ptr only: chunk_free stays as it was.
ResumeKeepsFree(h, rc) ==
  IF StopsOn(op[h], rc)
    THEN /\ Leave(h, op[h], buf[h], smap[h], 1)
         /\ UNCHANGED <<chunk, chunk_free>>
    ELSE LET reset == call[h] = "flush" /\ rc = 0
             ch == IF reset THEN <<>> ELSE chunk[h] IN
         /\ chunk' = [chunk EXCEPT ![h] = ch]
         /\ UNCHANGED chunk_free
         /\ Begin(h, op[h], buf[h], smap[h], Pos(op[h], call[h]) + 1, ch)

\* Resume whose flush resets the buffer also when its chunk was not written.
ResumeResetOnFailure(h, rc) ==
  IF StopsOn(op[h], rc)
    THEN /\ Leave(h, op[h], buf[h], smap[h], 1)
         /\ chunk' = [chunk EXCEPT ![h] = IF call[h] = "flush" THEN <<>> ELSE @]
         /\ chunk_free' =
              [chunk_free EXCEPT
                 ![h] = IF call[h] = "flush" THEN XB_STREAM_MIN_CHUNK_SIZE
                        ELSE @]
    ELSE LET reset == call[h] = "flush" /\ rc = 0
             ch == IF reset THEN <<>> ELSE chunk[h] IN
         /\ chunk' = [chunk EXCEPT ![h] = ch]
         /\ chunk_free' =
              [chunk_free EXCEPT
                 ![h] = IF reset THEN XB_STREAM_MIN_CHUNK_SIZE ELSE @]
         /\ Begin(h, op[h], buf[h], smap[h], Pos(op[h], call[h]) + 1, ch)

\* The emission of thread h has returned rc: what its callers do with it,
\* up to the next lock or to the return of the public operation.
Resume(h, rc) ==
  IF StopsOn(op[h], rc)
    THEN /\ Leave(h, op[h], buf[h], smap[h], 1)
         /\ UNCHANGED <<chunk, chunk_free>>
    ELSE \* xb_stream_flush resets the buffer when its chunk has been written
         LET reset == call[h] = "flush" /\ rc = 0
             ch == IF reset THEN <<>> ELSE chunk[h] IN
         /\ chunk' = [chunk EXCEPT ![h] = ch]
         /\ chunk_free' =
              [chunk_free EXCEPT
                 ![h] = IF reset THEN XB_STREAM_MIN_CHUNK_SIZE ELSE @]
         /\ Begin(h, op[h], buf[h], smap[h], Pos(op[h], call[h]) + 1, ch)

\* What is recorded of a public call when it is made: its arguments, what
\* it found in the handle, and (before) the same of the write and
\* write_sparse calls the thread made before it, in order.
CallRecord(h, o, b, m) ==
  [op |-> o, buf |-> b, smap |-> m, chunk |-> chunk[h],
   chunk_free |-> chunk_free[h], offset |-> offset[h], em |-> nemit[h],
   before |-> IF last[h].op \notin {"write", "sparse"} THEN last[h].before
              ELSE Append(last[h].before,
                          [op |-> last[h].op, buf |-> last[h].buf,
                           smap |-> last[h].smap, chunk |-> last[h].chunk,
                           chunk_free |-> last[h].chunk_free,
                           offset |-> last[h].offset, em |-> last[h].em])]

\* PathTooLong that also refuses a path of the greatest length.
PathTooLongFromLimit(len) == len >= FN_REFLEN

\* The test of xb_stream_write_open on its path: "path_len > FN_REFLEN".
PathTooLong(len) == len > FN_REFLEN

\* xb_stream_write_open(stream, p, ...): NULL for a path that is too long.
\* (The call is recorded with the path in the place of the bytes.)
xb_stream_write_open(h) ==
  /\ pc[h] = "idle"
  /\ state[h] = "none"
  /\ \E p \in Paths(h) :
       /\ last' = [last EXCEPT ![h] = CallRecord(h, "open", p, <<>>)]
       /\ IF PathTooLong(Len(p))
         THEN /\ ret' = [ret EXCEPT ![h] = "NULL"]
              /\ UNCHANGED filev
         ELSE /\ ret' = [ret EXCEPT ![h] = "file"]
              /\ state' = [state EXCEPT ![h] = "open"]
              /\ path' = [path EXCEPT ![h] = p]
              /\ path_len' = [path_len EXCEPT ![h] = Len(p)]
              /\ offset' = [offset EXCEPT ![h] = 0]
              /\ chunk' = [chunk EXCEPT ![h] = <<>>]
              /\ chunk_free' = [chunk_free EXCEPT ![h] = XB_STREAM_MIN_CHUNK_SIZE]
              /\ UNCHANGED sparse_map_buf
  /\ UNCHANGED <<shared, framev, written>>

\* Buffers that sends an empty write down the emitting path.
BuffersOnlyNonEmpty(h, len) == 0 < len /\ len < chunk_free[h]

\* Buffers that also buffers a write that fills the buffer exactly.
BuffersUpToFull(h, len) == len <= chunk_free[h]

\* The test of xb_stream_write_data on its len: "len < file->chunk_free".
Buffers(h, len) == len < chunk_free[h]

\* xb_stream_write_data(file, b, Len(b)), up to its first lock or its return
xb_stream_write_data(h) ==
  /\ pc[h] = "idle"
  /\ state[h] = "open"
  /\ MayCall(h)
  /\ \E n \in DataLens(h) :
       LET b == DataOf(h, n) IN
       /\ last' = [last EXCEPT ![h] = CallRecord(h, "write", b, <<>>)]
       /\ IF Buffers(h, Len(b))
            THEN /\ chunk' = [chunk EXCEPT ![h] = @ \o b]
                 /\ chunk_free' = [chunk_free EXCEPT ![h] = @ - Len(b)]
                 /\ Leave(h, "write", b, <<>>, 0)
            ELSE /\ Begin(h, "write", b, <<>>, 1, chunk[h])
                 /\ UNCHANGED <<chunk, chunk_free>>
  /\ nops' = [nops EXCEPT ![h] = @ + 1]
  /\ UNCHANGED <<mutex, sink, faults, path, path_len, offset>>

\* xb_stream_write_sparse_data that buffers short sparse data as
\* xb_stream_write_data buffers short data.
xb_stream_write_sparse_data_buffering(h) ==
  /\ pc[h] = "idle"
  /\ state[h] = "open"
  /\ MayCall(h)
  /\ \E m \in SparseMaps(h) :
       LET b == DataOf(h, SparsePayloadLen(m)) IN
       /\ last' = [last EXCEPT ![h] = CallRecord(h, "sparse", b, m)]
       /\ IF Buffers(h, Len(b))
            THEN /\ chunk' = [chunk EXCEPT ![h] = @ \o b]
                 /\ chunk_free' = [chunk_free EXCEPT ![h] = @ - Len(b)]
                 /\ Leave(h, "sparse", b, m, 0)
            ELSE /\ Begin(h, "sparse", b, m, 1, chunk[h])
                 /\ UNCHANGED <<chunk, chunk_free>>
  /\ nops' = [nops EXCEPT ![h] = @ + 1]
  /\ UNCHANGED <<mutex, sink, faults, path, path_len, offset>>

\* xb_stream_write_sparse_data(file, b, Len(b), Len(m), m), up to its first lock
xb_stream_write_sparse_data(h) ==
  /\ pc[h] = "idle"
  /\ state[h] = "open"
  /\ MayCall(h)
  /\ \E m \in SparseMaps(h) :
       LET b == DataOf(h, SparsePayloadLen(m)) IN
       /\ last' = [last EXCEPT ![h] = CallRecord(h, "sparse", b, m)]
       /\ Begin(h, "sparse", b, m, 1, chunk[h])
  /\ nops' = [nops EXCEPT ![h] = @ + 1]
  /\ UNCHANGED <<mutex, sink, faults, path, path_len, offset, chunk,
                 chunk_free>>

\* xb_stream_write_close(file), up to its first lock
xb_stream_write_close(h) ==
  /\ pc[h] = "idle"
  /\ state[h] = "open"
  /\ last' = [last EXCEPT ![h] = CallRecord(h, "close", <<>>, <<>>)]
  /\ Begin(h, "close", <<>>, <<>>, 1, chunk[h])
  /\ UNCHANGED <<shared, path, path_len, offset, chunk, chunk_free>>

(***************************************************************************)
(* One emission: lock, sink calls, unlock.                                 *)
(***************************************************************************)
\* The header of an EOF chunk.
EofHeader(h) ==
  XB_STREAM_CHUNK_MAGIC \o <<0>> \o <<XB_CHUNK_TYPE_EOF>>
    \o int4store(path_len[h]) \o SubSeq(path[h], 1, path_len[h])

\* mutex_lock that does not wait for the mutex to be free.
mutex_lock_nowait(h) ==
  /\ pc[h] = "lock"
  /\ mutex' = h
  /\ tmpbuf' =
       [tmpbuf EXCEPT
          ![h] = IF call[h] = "eof" THEN EofHeader(h)
                 ELSE @ \o int8store(offset[h]) \o checksum[h]]
  /\ pc' = [pc EXCEPT ![h] = "hdr"]
  /\ UNCHANGED <<sink, faults, nops, filev, op, call, buf, smap, ebuf, emap,
                 checksum, nemit, ghostv>>

\* mutex_lock that stores the offset the chunk ends at, not the one it
\* starts at.
mutex_lock_end_offset(h) ==
  /\ pc[h] = "lock"
  /\ mutex = 0
  /\ mutex' = h
  /\ tmpbuf' =
       [tmpbuf EXCEPT
          ![h] = IF call[h] = "eof" THEN EofHeader(h)
                 ELSE @ \o int8store(offset[h] + Len(ebuf[h])) \o checksum[h]]
  /\ pc' = [pc EXCEPT ![h] = "hdr"]
  /\ UNCHANGED <<sink, faults, nops, filev, op, call, buf, smap, ebuf, emap,
                 checksum, nemit, ghostv>>

\* stream->mutex->lock(), and the header bytes completed under the lock
mutex_lock(h) ==
  /\ pc[h] = "lock"
  /\ mutex = 0
  /\ mutex' = h
  /\ tmpbuf' =
       [tmpbuf EXCEPT
          ![h] = IF call[h] = "eof" THEN EofHeader(h)
                 ELSE @ \o int8store(offset[h]) \o checksum[h]]
  /\ pc' = [pc EXCEPT ![h] = "hdr"]
  /\ UNCHANGED <<sink, faults, nops, filev, op, call, buf, smap, ebuf, emap,
                 checksum, nemit, ghostv>>

\* file->write(file, userdata, tmpbuf, ptr - tmpbuf)
write_header(h) ==
  /\ pc[h] = "hdr"
  /\ \E r \in SinkRets(Len(tmpbuf[h])) :
       /\ SinkCall(h, IF call[h] = "eof" THEN "eof" ELSE "hdr", tmpbuf[h], r)
       /\ pc' = [pc EXCEPT
                   ![h] = IF SinkFailed(r, Len(tmpbuf[h])) THEN "err"
                          ELSE IF call[h] = "eof" THEN "ok" ELSE "map"]
  /\ UNCHANGED <<mutex, nops, filev, op, call, buf, smap, ebuf, emap, tmpbuf,
                 checksum, nemit, ghostv>>

\* write_sparse_map that does not look at what the callback returned.
write_sparse_map_unchecked(h) ==
  /\ pc[h] = "map"
  /\ LET bytes == SubSeq(sparse_map_buf[h], 1, 4 * 2 * Len(emap[h])) IN
     \E r \in SinkRets(Len(bytes)) :
       /\ SinkCall(h, "map", bytes, r)
       /\ pc' = [pc EXCEPT ![h] = "payload"]
  /\ UNCHANGED <<mutex, nops, filev, op, call, buf, smap, ebuf, emap, tmpbuf,
                 checksum, nemit, ghostv>>

\* file->write(file, userdata, file->sparse_map_buf, 4 * 2 * sparse_map_size)
write_sparse_map(h) ==
  /\ pc[h] = "map"
  /\ LET bytes == SubSeq(sparse_map_buf[h], 1, 4 * 2 * Len(emap[h])) IN
     \E r \in SinkRets(Len(bytes)) :
       /\ SinkCall(h, "map", bytes, r)
       /\ pc' = [pc EXCEPT
                   ![h] = IF SinkFailed(r, Len(bytes)) THEN "err"
                          ELSE "payload"]
  /\ UNCHANGED <<mutex, nops, filev, op, call, buf, smap, ebuf, emap, tmpbuf,
                 checksum, nemit, ghostv>>

\* file->write(file, userdata, buf, len)
write_payload(h) ==
  /\ pc[h] = "payload"
  /\ \E r \in SinkRets(Len(ebuf[h])) :
       /\ SinkCall(h, "payload", ebuf[h], r)
       /\ pc' = [pc EXCEPT
                   ![h] = IF SinkFailed(r, Len(ebuf[h])) THEN "err" ELSE "ok"]
  /\ UNCHANGED <<mutex, nops, filev, op, call, buf, smap, ebuf, emap, tmpbuf,
                 checksum, nemit, ghostv>>

\* xb_stream_write_chunk's end: offset advances, unlock, return 0
chunk_ok(h) ==
  /\ pc[h] = "ok"
  /\ call[h] # "eof"
  /\ offset' = [offset EXCEPT ![h] = @ + Contribution(emap[h], Len(ebuf[h]))]
  /\ mutex' = 0
  /\ Resume(h, 0)
  /\ UNCHANGED <<sink, faults, nops, path, path_len, last>>

\* xb_stream_write_eof's end: unlock, return 0
eof_ok(h) ==
  /\ pc[h] = "ok"
  /\ call[h] = "eof"
  /\ mutex' = 0
  /\ Resume(h, 0)
  /\ UNCHANGED <<sink, faults, nops, path, path_len, offset, last>>

\* emit_err that returns 0 to the caller of the emission.
emit_err_returns_0(h) ==
  /\ pc[h] = "err"
  /\ mutex' = 0
  /\ Resume(h, 0)
  /\ UNCHANGED <<sink, faults, nops, path, path_len, offset, last>>

\* emit_err that returns 1 without unlocking the mutex.
emit_err_keeps_mutex(h) ==
  /\ pc[h] = "err"
  /\ Resume(h, 1)
  /\ UNCHANGED <<mutex, sink, faults, nops, path, path_len, offset, last>>

\* emit_err that advances offset as the successful end does.
emit_err_advancing(h) ==
  /\ pc[h] = "err"
  /\ mutex' = 0
  /\ offset' = [offset EXCEPT ![h] = @ + Contribution(emap[h], Len(ebuf[h]))]
  /\ Resume(h, 1)
  /\ UNCHANGED <<sink, faults, nops, path, path_len, last>>

\* err: unlock, return 1 (of xb_stream_write_chunk and xb_stream_write_eof)
emit_err(h) ==
  /\ pc[h] = "err"
  /\ mutex' = 0
  /\ Resume(h, 1)
  /\ UNCHANGED <<sink, faults, nops, path, path_len, offset, last>>

Next ==
  \E h \in Handles :
    \/ xb_stream_write_open(h)
    \/ xb_stream_write_data(h)
    \/ xb_stream_write_sparse_data(h)
    \/ xb_stream_write_close(h)
    \/ mutex_lock(h)
    \/ write_header(h)
    \/ write_sparse_map(h)
    \/ write_payload(h)
    \/ chunk_ok(h)
    \/ eof_ok(h)
    \/ emit_err(h)

Spec == Init /\ [][Next]_vars

\* The steps of thread h inside its public call: taking the mutex when it is
\* free, the sink calls (the callback returns), the end of the emission.
Emits(h) ==
  \/ mutex_lock(h)
  \/ write_header(h)
  \/ write_sparse_map(h)
  \/ write_payload(h)
  \/ chunk_ok(h)
  \/ eof_ok(h)
  \/ emit_err(h)

\* The writer with threads that keep running and a callback that returns;
\* the callers may stop calling at any time.
FairSpec == Spec /\ \A h \in Handles : WF_vars(Emits(h))

(***************************************************************************)
(* Reading the sink.                                                       *)
(***************************************************************************)
\* The emission a sink call belongs to.
EmOf(e) == <<e.file, e.em>>

\* The sink calls of handle h made by its emissions after the em0-th.
CallsAfter(h, em0) == SelectSeq(sink, LAMBDA e : e.file = h /\ e.em > em0)

\* The sink calls of handle h.
CallsOf(h) == CallsAfter(h, 0)

\* A sink call that returned short: 0 <= ret < the length asked.
IsShort(e) == e.ret >= 0 /\ e.ret < Len(e.bytes)

\* The threads inside an emission after its first sink call.
PastHeader(h) == pc[h] \in {"map", "payload", "ok", "err"}

(***************************************************************************)
(* Reading the wire: the decoding side of the format (magic 8, flags 1,    *)
(* type 1, path length 4, path, then for data chunks sparse map length 4   *)
(* ('S' only), payload length 8, payload offset 8, checksum 4, then the    *)
(* sparse map and the payload; all integers little-endian).                *)
(***************************************************************************)
\* The largest integer TLC computes with; every value read from the wire that
\* is larger is read as this one (it exceeds every length of the model).
TooBig == 2147483647

uint4korr(b) ==
  IF b[4] >= 128 THEN TooBig
  ELSE b[1] + 256 * b[2] + 65536 * b[3] + 16777216 * b[4]

uint8korr(b) ==
  IF SubSeq(b, 5, 8) # <<0, 0, 0, 0>> THEN TooBig
  ELSE uint4korr(SubSeq(b, 1, 4))

\* The fields of a chunk header that is wholly in b.
ParseHeader(b) ==
  LET ty == b[10]
      pl == uint4korr(SubSeq(b, 11, 14))
      p0 == 14 + pl
      p1 == IF ty = XB_CHUNK_TYPE_SPARSE THEN p0 + 4 ELSE p0
  IN IF ty = XB_CHUNK_TYPE_EOF
       THEN [type |-> ty, path |-> SubSeq(b, 15, p0), maplen |-> 0,
             len |-> 0, offset |-> 0, crc |-> <<>>, size |-> p0]
       ELSE [type |-> ty, path |-> SubSeq(b, 15, p0),
             maplen |-> IF ty = XB_CHUNK_TYPE_SPARSE
                          THEN uint4korr(SubSeq(b, p0 + 1, p0 + 4)) ELSE 0,
             len |-> uint8korr(SubSeq(b, p1 + 1, p1 + 8)),
             offset |-> uint8korr(SubSeq(b, p1 + 9, p1 + 16)),
             crc |-> SubSeq(b, p1 + 17, p1 + 20),
             size |-> p1 + 20]

RECURSIVE DecodeSparseMap(_)
\* The (skip, len) pairs of an encoded sparse map.
DecodeSparseMap(b) ==
  IF Len(b) < 8 THEN <<>>
  ELSE <<[skip |-> uint4korr(SubSeq(b, 1, 4)),
          len |-> uint4korr(SubSeq(b, 5, 8))]>>
         \o DecodeSparseMap(SubSeq(b, 9, Len(b)))

\* The path carried by the chunk that sink call e begins.
PathOn(e) == ParseHeader(e.bytes).path

\* The sink calls that begin a chunk.
BeginsChunk(e) == e.part \in {"hdr", "eof"}

\* The write or write_sparse call (numbered from 0) that was given byte x by
\* thread h: see DataOf.
CallIndex(h, x) == (x - 64 * h) \div 8

\* The sink call of kind part made by emission k of handle h.
PartOf(h, k, part) ==
  LET i == CHOOSE j \in 1..Len(sink) :
             sink[j].file = h /\ sink[j].em = k /\ sink[j].part = part
  IN sink[i]

\* The emissions of handle h, before its k-th, that are complete data chunks
\* in the sink: their payload call did not fail.
CompleteChunks(h, k) ==
  { sink[i].em : i \in { j \in 1..Len(sink) :
                           /\ sink[j].file = h
                           /\ sink[j].em < k
                           /\ sink[j].part = "payload"
                           /\ sink[j].ret # -1 } }

\* What the chunk of emission k of handle h says it adds to the file: the
\* payload length field of its header plus the skips of its sparse map.
WireContribution(h, k) ==
  LET hd == ParseHeader(PartOf(h, k, "hdr").bytes)
      mp == DecodeSparseMap(
              SubSeq(PartOf(h, k, "map").bytes, 1, 4 * 2 * hd.maplen))
  IN hd.len + (IF hd.type = XB_CHUNK_TYPE_SPARSE THEN SumSkip(mp) ELSE 0)

RECURSIVE WireSum(_, _)
WireSum(h, K) ==
  IF K = {} THEN 0
  ELSE LET k == CHOOSE x \in K : TRUE IN
       WireContribution(h, k) + WireSum(h, K \ {k})

\* The sum over the complete chunks of handle h before its k-th emission.
WireSizeBefore(h, k) == WireSum(h, CompleteChunks(h, k))

\* The sum over all the complete chunks of handle h.
WireSize(h) == WireSizeBefore(h, nemit[h] + 1)

RECURSIVE WireUpTo(_)
\* The bytes the sink has taken in its first n calls: of each call, as many
\* bytes as it returned (none of a call that failed).
WireUpTo(n) ==
  IF n = 0 THEN <<>>
  ELSE WireUpTo(n - 1)
         \o SubSeq(sink[n].bytes, 1, IF sink[n].ret < 0 THEN 0 ELSE sink[n].ret)

Wire == WireUpTo(Len(sink))

\* What the reader returns where it cannot decode a chunk.
DecodeError ==
  [type |-> 0, path |-> <<>>, map |-> <<>>, payload |-> <<>>, offset |-> 0,
   crc |-> <<>>]

RECURSIVE DecodeStream(_)
\* The chunks read from w one after the other, up to the end of w or to the
\* first chunk that cannot be decoded.
DecodeStream(w) ==
  IF w = <<>> THEN <<>>
  ELSE IF Len(w) < 14 \/ SubSeq(w, 1, 8) # XB_STREAM_CHUNK_MAGIC
    THEN <<DecodeError>>
  ELSE
    LET ty == w[10]
        pl == uint4korr(SubSeq(w, 11, 14))
        hs == 14 + pl + (IF ty = XB_CHUNK_TYPE_SPARSE THEN 4 ELSE 0) + 20
    IN
    IF pl > FN_REFLEN \/ Len(w) < 14 + pl THEN <<DecodeError>>
    ELSE IF ty = XB_CHUNK_TYPE_EOF
      THEN <<[type |-> ty, path |-> SubSeq(w, 15, 14 + pl), map |-> <<>>,
              payload |-> <<>>, offset |-> 0, crc |-> <<>>]>>
             \o DecodeStream(SubSeq(w, 15 + pl, Len(w)))
    ELSE IF ty \notin {XB_CHUNK_TYPE_PAYLOAD, XB_CHUNK_TYPE_SPARSE}
              \/ Len(w) < hs
      THEN <<DecodeError>>
    ELSE
      LET hd == ParseHeader(SubSeq(w, 1, hs)) IN
      IF \/ hd.maplen > Len(w)
         \/ hd.len > Len(w)
         \/ Len(w) < hs + 4 * 2 * hd.maplen + hd.len
        THEN <<DecodeError>>
        ELSE
          LET ms == hs + 4 * 2 * hd.maplen
              ps == ms + hd.len
          IN <<[type |-> ty, path |-> hd.path,
                map |-> DecodeSparseMap(SubSeq(w, hs + 1, ms)),
                payload |-> SubSeq(w, ms + 1, ps),
                offset |-> hd.offset, crc |-> hd.crc]>>
               \o DecodeStream(SubSeq(w, ps + 1, Len(w)))

\* The reader's checksum validation of a decoded data chunk.
ChecksumValid(c) ==
  c.crc = crc32_iso3309(
            crc32_iso3309(<<0, 0, 0, 0>>, EncodeSparseMap(c.map)), c.payload)

RECURSIVE Payloads(_)
\* The payloads of the chunks cs, one after the other.
Payloads(cs) ==
  IF cs = <<>> THEN <<>> ELSE Head(cs).payload \o Payloads(Tail(cs))

(***************************************************************************)
(* C1.  The sink calls of one emission (header, sparse map, payload, or    *)
(* the one call of an EOF chunk) are contiguous in the sink: no call of    *)
(* another emission lies between two calls of the same emission.  The sink *)
(* grows by one call a step, so it is stated of the latest call: every     *)
(* earlier call of its emission is followed by calls of that emission only.*)
(***************************************************************************)
C1_ChunkContiguous ==
  LET n == Len(sink) IN
  \A i \in 1..n :
    EmOf(sink[i]) = EmOf(sink[n])
      => \A j \in i..n : EmOf(sink[j]) = EmOf(sink[n])

\* Thread 1 holds the mutex between the header and the payload of its second
\* chunk, while thread 2 waits for the mutex with a chunk of its own.
C1_Witness ==
  /\ mutex = 1
  /\ pc[1] = "payload"
  /\ call[1] = "chunk"
  /\ pc[2] = "lock"
  /\ call[2] = "chunk"
  /\ \E i \in 1..Len(sink) : sink[i].file = 1 /\ sink[i].em < nemit[1]

(***************************************************************************)
(* C2.  The offset of a handle changes only in the step that ends a chunk  *)
(* emission none of whose three sink calls returned -1; the step that ends *)
(* an emission with a sink call that returned -1 leaves it unchanged, and  *)
(* no step in between changes it.                                          *)
(***************************************************************************)
C2_OffsetOnlyOnSuccess ==
  [][\A h \in Handles :
       /\ offset'[h] # offset[h] =>
            /\ pc[h] = "ok"
            /\ call[h] \in {"flush", "chunk"}
            /\ LET cs == CallsAfter(h, nemit[h] - 1) IN
               /\ [i \in 1..Len(cs) |-> cs[i].part] = <<"hdr", "map", "payload">>
               /\ \A i \in 1..Len(cs) : cs[i].ret # -1
            /\ offset'[h] = offset[h] + Len(ebuf[h]) + SumSkip(emap[h])
       /\ pc[h] = "err" => offset'[h] = offset[h]]_vars

\* A chunk emission of a handle whose offset is no longer 0 has failed at
\* its payload call and has returned 1 to the caller.
C2_Witness ==
  \E h \in Handles :
    /\ pc[h] = "idle"
    /\ ret[h] = "1"
    /\ offset[h] > 0
    /\ sink # <<>>
    /\ sink[Len(sink)].file = h
    /\ sink[Len(sink)].part = "payload"
    /\ sink[Len(sink)].ret = -1

(***************************************************************************)
(* C3.  As claimed: a sink call that returns short aborts the emission,    *)
(* so a thread that has gone past a sink call of its emission has had no   *)
(* short return in that emission.  The writer does not do that.            *)
(***************************************************************************)
C3_ShortReturnAborts ==
  \A h \in Handles :
    pc[h] \in {"map", "payload", "ok"} =>
      LET cs == CallsAfter(h, nemit[h] - 1) IN
      \A i \in 1..Len(cs) : ~IsShort(cs[i])

(***************************************************************************)
(* C3, amended.  Only the return value -1 aborts an emission: after each   *)
(* sink call the emission is aborted if and only if the call returned -1,  *)
(* a short return being taken for a success; and a write or write_sparse   *)
(* that made sink calls and returned 0 has advanced offset by the whole    *)
(* length of what it emitted, whatever the sink calls returned short.      *)
(***************************************************************************)
C3_OnlyMinusOneAborts ==
  \A h \in Handles :
    /\ PastHeader(h) =>
         LET cs == CallsAfter(h, nemit[h] - 1) IN
         /\ cs # <<>>
         /\ (pc[h] = "err") = (cs[Len(cs)].ret = -1)
         /\ \A i \in 1..(Len(cs) - 1) : cs[i].ret # -1
    /\ ( /\ pc[h] = "idle"
         /\ last[h].op \in {"write", "sparse"}
         /\ ret[h] = "0"
         /\ nemit[h] > last[h].em )
       => offset[h] = last[h].offset + Len(last[h].chunk)
                        + Len(last[h].buf) + SumSkip(last[h].smap)

\* A write has returned 0 and advanced offset although one of the sink calls
\* of its chunk returned short.
C3_Witness ==
  \E h \in Handles :
    /\ pc[h] = "idle"
    /\ last[h].op = "write"
    /\ ret[h] = "0"
    /\ offset[h] = last[h].offset + Len(last[h].chunk) + Len(last[h].buf)
    /\ \E i \in 1..Len(sink) :
         /\ sink[i].file = h
         /\ sink[i].em > last[h].em
         /\ IsShort(sink[i])

(***************************************************************************)
(* C4.  As claimed: every close that has returned has made, since it was   *)
(* called, the sink calls of at most one payload chunk and then the sink   *)
(* call of exactly one EOF chunk, whatever the sink returned.  The writer  *)
(* does not do that when the flush fails.                                  *)
(***************************************************************************)
C4_CloseEmitsOneEof ==
  \A h \in Handles :
    state[h] = "freed" =>
      LET cs == CallsAfter(h, last[h].em)
          fl == SelectSeq(cs, LAMBDA e : e.part # "eof")
          eo == SelectSeq(cs, LAMBDA e : e.part = "eof")
      IN /\ cs = fl \o eo
         /\ \A i \in 1..Len(fl) : fl[i].em = last[h].em + 1
         /\ Len(eo) = 1

(***************************************************************************)
(* C4, amended.  Every close makes exactly one final flush, which emits no *)
(* chunk when the buffer is empty and one 'P' chunk holding the buffer     *)
(* otherwise, and then emits exactly one EOF chunk unless the flush failed *)
(* (a sink call of its chunk returned -1): after a failed flush no EOF     *)
(* chunk is emitted and close returns 1.  Never more than one EOF chunk is *)
(* emitted, and never one before the flush.                                *)
(***************************************************************************)
C4_CloseFlushThenEofUnlessFailed ==
  \A h \in Handles :
    state[h] = "freed" =>
      LET cs == CallsAfter(h, last[h].em)
          fl == SelectSeq(cs, LAMBDA e : e.part # "eof")
          eo == SelectSeq(cs, LAMBDA e : e.part = "eof")
          flushFailed == fl # <<>> /\ fl[Len(fl)].ret = -1
      IN /\ last[h].op = "close"
         /\ cs = fl \o eo
         /\ (fl = <<>>) = (last[h].chunk = <<>>)
         /\ \A i \in 1..Len(fl) :
              /\ fl[i].em = last[h].em + 1
              /\ fl[i].part = "hdr" =>
                   /\ i = 1
                   /\ ParseHeader(fl[i].bytes).type = XB_CHUNK_TYPE_PAYLOAD
              /\ fl[i].part = "payload" =>
                   i = Len(fl) /\ fl[i].bytes = last[h].chunk
              /\ i < Len(fl) => fl[i].ret # -1
         /\ Len(eo) = IF flushFailed THEN 0 ELSE 1
         /\ \A i \in 1..Len(eo) : eo[i].bytes = EofHeader(h)
         /\ (ret[h] = "0") = (\A i \in 1..Len(cs) : cs[i].ret # -1)

\* A close has returned 1 without an EOF chunk: the flush of its non-empty
\* buffer failed at the payload.
C4_Witness ==
  \E h \in Handles :
    /\ state[h] = "freed"
    /\ ret[h] = "1"
    /\ last[h].chunk # <<>>
    /\ sink # <<>>
    /\ sink[Len(sink)].file = h
    /\ sink[Len(sink)].part = "payload"
    /\ sink[Len(sink)].ret = -1
    /\ sink[Len(sink)].em = last[h].em + 1

(***************************************************************************)
(* C5.  As claimed: every chunk that carries the path of an 'E' chunk      *)
(* precedes that 'E' chunk in the sink, whatever handles are opened.       *)
(* Stated of the latest chunk begun: no 'E' chunk before it carries its    *)
(* path.  It fails when two handles are opened with the same path.         *)
(***************************************************************************)
C5_SamePathBeforeEof ==
  LET n == Len(sink) IN
  \A i \in 1..(n - 1) :
    (sink[i].part = "eof" /\ BeginsChunk(sink[n]))
      => PathOn(sink[n]) # PathOn(sink[i])

(***************************************************************************)
(* C5, amended.  For every 'E' chunk, all chunks emitted through the same  *)
(* handle precede it in the sink; so all chunks that carry the same path   *)
(* precede it provided no other handle has been opened with that path.     *)
(***************************************************************************)
C5_SameHandleBeforeEof ==
  LET n == Len(sink) IN
  \A i \in 1..(n - 1) :
    sink[i].part = "eof" =>
      LET f == sink[i].file IN
      /\ sink[n].file # f
      /\ ( /\ BeginsChunk(sink[n])
           /\ \A g \in Handles \ {f} :
                state[g] = "none" \/ path[g] # path[f] )
         => PathOn(sink[n]) # PathOn(sink[i])

\* Handle 1 has emitted a data chunk and then its 'E' chunk, and handle 2,
\* opened with another path, has begun a chunk after that 'E' chunk.
C5_Witness ==
  /\ state[2] = "open"
  /\ path[1] # path[2]
  /\ \E i, j, k \in 1..Len(sink) :
       /\ i < j /\ j < k
       /\ sink[i].file = 1 /\ sink[i].part = "hdr"
       /\ sink[j].file = 1 /\ sink[j].part = "eof"
       /\ sink[k].file = 2 /\ sink[k].part = "hdr"
       /\ PathOn(sink[k]) # PathOn(sink[j])

(***************************************************************************)
(* C6.  The chunks of one handle are in the sink in the order of the calls *)
(* that emitted them, whatever the other handle emits in between: stated   *)
(* of the latest sink call, every earlier sink call of the same handle     *)
(* belongs to the same or to an earlier emission, is not the call of the   *)
(* handle's EOF chunk, and, when both are payloads and the earlier one did *)
(* not fail, holds bytes given by earlier write calls (the buffer of a     *)
(* flush that failed is emitted again by the next flush).                  *)
(***************************************************************************)
C6_HandleOrder ==
  LET n == Len(sink) IN
  \A i \in 1..(n - 1) :
    sink[i].file = sink[n].file =>
      /\ sink[i].em <= sink[n].em
      /\ sink[i].part # "eof"
      /\ ( /\ sink[i].part = "payload"
           /\ sink[i].ret # -1
           /\ sink[n].part = "payload" ) =>
           \A a \in 1..Len(sink[i].bytes), b \in 1..Len(sink[n].bytes) :
             CallIndex(sink[n].file, sink[i].bytes[a])
               < CallIndex(sink[n].file, sink[n].bytes[b])

\* Handle 1 has emitted its buffer, then a later write's bytes, then its EOF
\* chunk, and handle 2 has emitted in between.
C6_Witness ==
  /\ state[1] = "freed"
  /\ \E i, j, k, l \in 1..Len(sink) :
       /\ i < j /\ j < k /\ k < l
       /\ sink[i].file = 1 /\ sink[i].part = "payload"
       /\ sink[j].file = 2
       /\ sink[k].file = 1 /\ sink[k].part = "payload"
       /\ sink[k].em = sink[i].em + 1
       /\ sink[l].file = 1 /\ sink[l].part = "eof"

(***************************************************************************)
(* C7.  As claimed: whenever a handle is between two operations, its       *)
(* offset equals the sum of the payload length fields of its 'P' and 'S'   *)
(* chunks in the sink plus the skips of its 'S' chunks, and equals the     *)
(* logical size of what was written through it.  The second part fails     *)
(* while bytes are in the handle's buffer.                                 *)
(***************************************************************************)
C7_OffsetIsLogicalSize ==
  \A h \in Handles :
    (pc[h] = "idle" /\ state[h] # "none") =>
      /\ offset[h] = WireSize(h)
      /\ offset[h] = written[h].size

(***************************************************************************)
(* C7, amended.  The offset of a handle equals the sum of the payload      *)
(* length fields of its complete 'P' and 'S' chunks in the sink plus the   *)
(* skips of its 'S' chunks; between two operations, offset plus the number *)
(* of bytes in the handle's buffer equals the logical size of what the     *)
(* write and write_sparse calls that returned 0 were given; so offset      *)
(* equals that logical size after a close that returned 0.                 *)
(***************************************************************************)
C7_OffsetIsFlushedSize ==
  \A h \in Handles :
    state[h] # "none" =>
      /\ ~(pc[h] = "ok" /\ call[h] # "eof") => offset[h] = WireSize(h)
      /\ (pc[h] = "idle" /\ state[h] = "open") =>
           offset[h] + Len(chunk[h]) = written[h].size
      /\ (state[h] = "freed" /\ ret[h] = "0") => offset[h] = written[h].size

\* A handle has emitted a sparse chunk with skips and has bytes of a later
\* write in its buffer.
C7_Witness ==
  \E h \in Handles :
    /\ pc[h] = "idle"
    /\ state[h] = "open"
    /\ Len(chunk[h]) > 0
    /\ offset[h] > 1024
    /\ written[h].size = offset[h] + Len(chunk[h])
    /\ written[h].maps # <<>>

(***************************************************************************)
(* C8.  The payload offset field of the header of every data chunk equals  *)
(* the sum of the contributions (payload length plus sparse skips) of the  *)
(* chunks the same handle has emitted before it, whatever the other handle *)
(* emits in between.  Stated of the latest sink call, when it is the       *)
(* header of a data chunk.                                                 *)
(***************************************************************************)
C8_OffsetFieldIsSumBefore ==
  LET n == Len(sink) IN
  (n > 0 /\ sink[n].part = "hdr") =>
    ParseHeader(sink[n].bytes).offset
      = WireSizeBefore(sink[n].file, sink[n].em)

\* Handle 1 begins a chunk at an offset past the skips of its sparse chunk,
\* handle 2 having emitted a chunk of its own in between.
C8_Witness ==
  LET n == Len(sink) IN
  /\ n > 0
  /\ sink[n].part = "hdr"
  /\ sink[n].file = 1
  /\ ParseHeader(sink[n].bytes).offset > 1024
  /\ \E i, j \in 1..n :
       /\ i < j
       /\ sink[i].file = 1 /\ sink[i].part = "map" /\ sink[i].bytes # <<>>
       /\ sink[j].file = 2 /\ sink[j].part = "payload"

(***************************************************************************)
(* C9.  What a decoded wire gives back for the handles: no chunk fails to  *)
(* decode, every data chunk passes the checksum validation, and for every  *)
(* closed handle the chunks that carry its path are data chunks followed   *)
(* by one 'E' chunk, their payloads one after the other are the bytes the  *)
(* handle was given in write order, and the sparse maps of the 'S' chunks  *)
(* are the sparse maps it was given, in order.                             *)
(***************************************************************************)
RoundTrip ==
  LET cs == DecodeStream(Wire) IN
  /\ \A i \in 1..Len(cs) :
       /\ cs[i] # DecodeError
       /\ cs[i].type # XB_CHUNK_TYPE_EOF => ChecksumValid(cs[i])
  /\ \A h \in Handles :
       state[h] = "freed" =>
         LET mine == SelectSeq(cs, LAMBDA c : c.path = path[h])
             data == SelectSeq(mine, LAMBDA c : c.type # XB_CHUNK_TYPE_EOF)
             sparse == SelectSeq(mine,
                                 LAMBDA c : c.type = XB_CHUNK_TYPE_SPARSE)
         IN /\ mine = Append(data, [DecodeError EXCEPT
                                      !.type = XB_CHUNK_TYPE_EOF,
                                      !.path = path[h]])
            /\ Payloads(data) = written[h].bytes
            /\ [i \in 1..Len(sparse) |-> sparse[i].map] = written[h].maps

\* Every handle that was opened is closed, on pairwise distinct paths, and
\* no operation has returned 1 (no sink call has returned -1).
AllWrittenAndClosed ==
  /\ \A h \in Handles : pc[h] = "idle" /\ state[h] # "open"
  /\ \A f, g \in Handles :
       (f # g /\ state[f] = "freed" /\ state[g] = "freed")
         => path[f] # path[g]
  /\ \A i \in 1..Len(sink) : sink[i].ret # -1

C10_WriteBuffersOrEmits ==
  \A h \in Handles :
    (pc[h] = "idle" /\ last[h].op = "write" /\ ret[h] = "0") =>
      LET b == last[h].buf
          cs == CallsAfter(h, last[h].em)
          nf == IF last[h].chunk = <<>> THEN 0 ELSE 3
      IN IF Len(b) < last[h].chunk_free
           THEN /\ cs = <<>>
                /\ chunk[h] = last[h].chunk \o b
                /\ chunk_free[h] = last[h].chunk_free - Len(b)
                /\ offset[h] = last[h].offset
           ELSE /\ chunk[h] = <<>>
                /\ chunk_free[h] = XB_STREAM_MIN_CHUNK_SIZE
                /\ Len(cs) = nf + 3
                /\ [i \in 1..Len(cs) |-> cs[i].part]
                     = (IF nf = 0 THEN <<>> ELSE <<"hdr", "map", "payload">>)
                         \o <<"hdr", "map", "payload">>
                /\ \A i \in 1..Len(cs) :
                     /\ cs[i].em = last[h].em + (IF i <= 3 THEN 1 ELSE 2)
                     /\ cs[i].part = "hdr" =>
                          /\ ParseHeader(cs[i].bytes).type
                               = XB_CHUNK_TYPE_PAYLOAD
                          /\ ParseHeader(cs[i].bytes).len
                               = Len(cs[i + 2].bytes)
                     /\ cs[i].part = "map" => cs[i].bytes = <<>>
                /\ nf = 3 => cs[3].bytes = last[h].chunk
                /\ cs[nf + 3].bytes = b

\* A write of exactly chunk_free bytes, into a buffer that was not empty,
\* has returned 0.
C10_Witness ==
  \E h \in Handles :
    /\ pc[h] = "idle"
    /\ last[h].op = "write"
    /\ ret[h] = "0"
    /\ last[h].chunk # <<>>
    /\ Len(last[h].buf) = last[h].chunk_free
    /\ chunk[h] = <<>>

\* The sink calls made since its call by a write or write_sparse of thread
\* h that has returned 0 without buffering: those of the flush of the
\* buffer it found (none if it was empty), a 'P' chunk holding that buffer,
\* then those of one chunk of type ty whose sparse map is m and whose
\* payload is the bytes it was given.
FlushedThenEmitted(h, ty, m) ==
  LET cs == CallsAfter(h, last[h].em)
      nf == IF last[h].chunk = <<>> THEN 0 ELSE 3
  IN /\ Len(cs) = nf + 3
     /\ nf = 3 =>
          /\ cs[1].part = "hdr" /\ cs[2].part = "map"
          /\ cs[3].part = "payload"
          /\ \A i \in 1..3 : cs[i].em = last[h].em + 1
          /\ ParseHeader(cs[1].bytes).type = XB_CHUNK_TYPE_PAYLOAD
          /\ cs[2].bytes = <<>>
          /\ cs[3].bytes = last[h].chunk
     /\ cs[nf + 1].part = "hdr" /\ cs[nf + 2].part = "map"
     /\ cs[nf + 3].part = "payload"
     /\ \A i \in (nf + 1)..(nf + 3) :
          cs[i].em = last[h].em + (IF nf = 0 THEN 1 ELSE 2)
     /\ ParseHeader(cs[nf + 1].bytes).type = ty
     /\ DecodeSparseMap(cs[nf + 2].bytes) = m
     /\ cs[nf + 3].bytes = last[h].buf

(***************************************************************************)
(* C11.  As claimed: a write_sparse that has returned 0 has flushed the    *)
(* buffer first (as a 'P' chunk, if it was not empty) and has then emitted *)
(* exactly one chunk, of type 'S', holding its bytes; nothing of it is in  *)
(* the buffer.  The chunk is not of type 'S' when the sparse map is empty. *)
(***************************************************************************)
C11_SparseFlushesThenEmitsS ==
  \A h \in Handles :
    (pc[h] = "idle" /\ last[h].op = "sparse" /\ ret[h] = "0") =>
      /\ FlushedThenEmitted(h, XB_CHUNK_TYPE_SPARSE, last[h].smap)
      /\ chunk[h] = <<>>

(***************************************************************************)
(* C11, amended.  A write_sparse that has returned 0 has flushed the       *)
(* buffer first and has then emitted exactly one chunk holding its bytes   *)
(* and its sparse map: of type 'S' when the map has at least one entry, of *)
(* type 'P' when it has none.  Nothing of it is in the buffer, which is    *)
(* empty.                                                                  *)
(***************************************************************************)
C11_SparseFlushesThenEmitsOne ==
  \A h \in Handles :
    (pc[h] = "idle" /\ last[h].op = "sparse" /\ ret[h] = "0") =>
      /\ FlushedThenEmitted(h,
                            IF last[h].smap # <<>> THEN XB_CHUNK_TYPE_SPARSE
                            ELSE XB_CHUNK_TYPE_PAYLOAD,
                            last[h].smap)
      /\ chunk[h] = <<>>
      /\ chunk_free[h] = XB_STREAM_MIN_CHUNK_SIZE

\* A write_sparse with a sparse map of two entries, called with bytes in the
\* buffer, has returned 0.
C11_Witness ==
  \E h \in Handles :
    /\ pc[h] = "idle"
    /\ last[h].op = "sparse"
    /\ ret[h] = "0"
    /\ last[h].chunk # <<>>
    /\ Len(last[h].smap) = 2
    /\ Len(CallsAfter(h, last[h].em)) = 6

(***************************************************************************)
(* C12.  The header of a data chunk, once it has been given to the sink:   *)
(* its type byte is 'S' if the sparse map passed to the emission has at    *)
(* least one entry and 'P' if it has none; it holds the 4-byte sparse map  *)
(* length field, equal to the number of entries, exactly when the map has  *)
(* at least one entry (the header is 4 bytes longer then, and its payload  *)
(* length field still reads the length of the payload).                    *)
(***************************************************************************)
C12_TypeByMapSize ==
  \A h \in Handles :
    (PastHeader(h) /\ call[h] # "eof") =>
      LET hb == CallsAfter(h, nemit[h] - 1)[1].bytes
          hd == ParseHeader(hb)
          fixed == 8 + 1 + 1 + 4 + path_len[h] + 8 + 8 + 4
      IN /\ hb[10] = (IF Len(emap[h]) >= 1 THEN XB_CHUNK_TYPE_SPARSE
                       ELSE XB_CHUNK_TYPE_PAYLOAD)
         /\ Len(hb) = fixed + (IF Len(emap[h]) >= 1 THEN 4 ELSE 0)
         /\ hd.size = Len(hb)
         /\ hd.maplen = Len(emap[h])
         /\ hd.len = Len(ebuf[h])
         /\ hd.path = path[h]

\* A write_sparse with an empty sparse map and one byte of payload has given
\* the header of its chunk to the sink.
C12_Witness ==
  \E h \in Handles :
    /\ pc[h] = "map"
    /\ op[h] = "sparse"
    /\ call[h] = "chunk"
    /\ emap[h] = <<>>
    /\ Len(ebuf[h]) = 1
    /\ sink[Len(sink)].bytes[10] = XB_CHUNK_TYPE_PAYLOAD

(***************************************************************************)
(* C13.  A write of no bytes to an open handle, whatever the state of the  *)
(* handle, returns 0 having made no sink call and leaves offset (and the   *)
(* buffer) unchanged.                                                      *)
(***************************************************************************)
C13_EmptyWriteIsNoOp ==
  \A h \in Handles :
    (last[h].op = "write" /\ last[h].buf = <<>>) =>
      /\ pc[h] = "idle"
      /\ ret[h] = "0"
      /\ CallsAfter(h, last[h].em) = <<>>
      /\ nemit[h] = last[h].em
      /\ offset[h] = last[h].offset
      /\ chunk[h] = last[h].chunk
      /\ chunk_free[h] = last[h].chunk_free

\* An empty write has been made to a handle whose offset was past 0 and
\* whose buffer had room for one more byte only.
C13_Witness ==
  \E h \in Handles :
    /\ last[h].op = "write"
    /\ last[h].buf = <<>>
    /\ last[h].chunk_free = 1
    /\ last[h].offset > 0
    /\ pc[h] = "idle"

(***************************************************************************)
(* C14.  Every call of open returns no handle if and only if the length of *)
(* its path exceeds FN_REFLEN; a call that returns no handle changes       *)
(* nothing of the stream or of any handle; a call that returns a handle    *)
(* (so every call with a path of length FN_REFLEN or less) leaves the      *)
(* mutex and the sink alone and gives the handle the path, offset 0 and an *)
(* empty buffer of XB_STREAM_MIN_CHUNK_SIZE free bytes.                    *)
(***************************************************************************)
C14_OpenRejectsTooLong ==
  [][\A h \in Handles :
       (last'[h] # last[h] /\ last'[h].op = "open") =>
         LET p == last'[h].buf IN
         /\ ret'[h] \in {"NULL", "file"}
         /\ (ret'[h] = "NULL") = (Len(p) > FN_REFLEN)
         /\ UNCHANGED <<mutex, sink, framev>>
         /\ ret'[h] = "NULL" => UNCHANGED filev
         /\ ret'[h] = "file" =>
              /\ state[h] = "none" /\ state'[h] = "open"
              /\ path'[h] = p
              /\ path_len'[h] = Len(p)
              /\ offset'[h] = 0
              /\ chunk'[h] = <<>>
              /\ chunk_free'[h] = XB_STREAM_MIN_CHUNK_SIZE
              /\ \A g \in Handles \ {h} :
                   /\ state'[g] = state[g] /\ path'[g] = path[g]
                   /\ offset'[g] = offset[g] /\ chunk'[g] = chunk[g]
                   /\ chunk_free'[g] = chunk_free[g]]_vars

\* One open has been refused a path of FN_REFLEN + 1 characters and another
\* has returned a handle for a path of exactly FN_REFLEN characters.
C14_Witness ==
  /\ last[1].op = "open"
  /\ Len(last[1].buf) = FN_REFLEN + 1
  /\ ret[1] = "NULL"
  /\ state[1] = "none"
  /\ last[2].op = "open"
  /\ Len(last[2].buf) = FN_REFLEN
  /\ ret[2] = "file"
  /\ state[2] = "open"
  /\ offset[2] = 0 /\ chunk[2] = <<>>

(***************************************************************************)
(* C15.  A thread holds the mutex exactly from its lock to the end of its  *)
(* emission; the step that ends an emission, on success and after a sink   *)
(* call that failed alike, releases the mutex; and a thread that waits for *)
(* the mutex gets it eventually (the threads keep running, the callback    *)
(* returns), also when the emission that held it failed.                   *)
(***************************************************************************)
C15_MutexReleased ==
  /\ [](\A h \in Handles : (mutex = h) = (PastHeader(h) \/ pc[h] = "hdr"))
  /\ [][\A h \in Handles :
          (pc[h] \in {"ok", "err"} /\ pc'[h] # pc[h])
            => (mutex = h /\ mutex' = 0)]_vars
  /\ \A h \in Handles : (pc[h] = "lock") ~> (mutex = h)

\* Thread 2 waits for the mutex, which thread 1 holds in an emission one of
\* whose sink calls has failed.
C15_Witness ==
  /\ mutex = 1
  /\ pc[1] = "err"
  /\ pc[2] = "lock"
  /\ sink[Len(sink)].ret = -1

(***************************************************************************)
(* C16.  A write, write_sparse or close that has returned has returned 1   *)
(* if and only if one of the sink calls made since it was called returned  *)
(* -1, and 0 otherwise; a close that has returned has released the handle, *)
(* whichever it returned, and only a close has.                            *)
(***************************************************************************)
C16_FailureIffSinkFailed ==
  \A h \in Handles :
    (pc[h] = "idle" /\ last[h].op \in {"write", "sparse", "close"}) =>
      LET cs == CallsAfter(h, last[h].em) IN
      /\ ret[h] \in {"0", "1"}
      /\ (ret[h] = "1") = (\E i \in 1..Len(cs) : cs[i].ret = -1)
      /\ (last[h].op = "close") = (state[h] = "freed")

\* A close has flushed its buffer, has failed at the sink call of the EOF
\* chunk, has returned 1 and has released the handle.
C16_Witness ==
  \E h \in Handles :
    /\ pc[h] = "idle"
    /\ last[h].op = "close"
    /\ last[h].chunk # <<>>
    /\ ret[h] = "1"
    /\ state[h] = "freed"
    /\ sink[Len(sink)].file = h
    /\ sink[Len(sink)].part = "eof"
    /\ sink[Len(sink)].ret = -1

\* Thread h has made, one after the other and each returning 0, a write of
\* at least chunk_free bytes, a write of less than chunk_free bytes and a
\* close.
LargeSmallClose(h) ==
  /\ pc[h] = "idle"
  /\ last[h].op = "close"
  /\ Len(last[h].before) >= 2
  /\ LET n == Len(last[h].before)
         w1 == last[h].before[n - 1]
         w2 == last[h].before[n]
     IN /\ w1.op = "write" /\ Len(w1.buf) >= w1.chunk_free
        /\ w2.op = "write" /\ Len(w2.buf) < w2.chunk_free
        /\ \A i \in 1..Len(sink) :
             (sink[i].file = h /\ sink[i].em > w1.em) => sink[i].ret # -1

\* The payloads of the data chunks thread h has emitted since it made the
\* last but one of its write calls, in order.
PayloadsSinceLarge(h) ==
  LET n == Len(last[h].before)
      ps == SelectSeq(CallsAfter(h, last[h].before[n - 1].em),
                      LAMBDA e : e.part = "payload")
  IN [i \in 1..Len(ps) |-> ps[i].bytes]

(***************************************************************************)
(* C17.  As claimed: a large write, a small write and a close on one       *)
(* handle have put three data chunks in the sink: the buffer the large     *)
(* write found, the bytes of the large write, the bytes of the small       *)
(* write.  There are fewer when the large write found the buffer empty.    *)
(***************************************************************************)
C17_ThreeChunks ==
  \A h \in Handles :
    LargeSmallClose(h) =>
      LET n == Len(last[h].before)
          w1 == last[h].before[n - 1]
          w2 == last[h].before[n]
      IN PayloadsSinceLarge(h) = <<w1.chunk, w1.buf, w2.buf>>

(***************************************************************************)
(* C17, amended.  A large write, a small write and a close on one handle   *)
(* put in the sink: a 'P' chunk holding the buffer the large write found,  *)
(* if it was not empty; then a 'P' chunk holding the bytes of the large    *)
(* write; then, emitted by the close, a 'P' chunk holding the bytes of the *)
(* small write, if it was not empty; then the EOF chunk.  These are three  *)
(* data chunks only if the buffer was not empty before the large write and *)
(* the small write was not empty; on a new handle they are two.            *)
(***************************************************************************)
C17_BufferBypassBuffered ==
  \A h \in Handles :
    LargeSmallClose(h) =>
      LET n == Len(last[h].before)
          w1 == last[h].before[n - 1]
          w2 == last[h].before[n]
          cs == CallsAfter(h, w1.em)
      IN /\ PayloadsSinceLarge(h)
              = (IF w1.chunk # <<>> THEN <<w1.chunk>> ELSE <<>>)
                  \o <<w1.buf>>
                  \o (IF w2.buf # <<>> THEN <<w2.buf>> ELSE <<>>)
         /\ \A i \in 1..Len(cs) :
              /\ cs[i].part = "hdr" =>
                   ParseHeader(cs[i].bytes).type = XB_CHUNK_TYPE_PAYLOAD
              /\ cs[i].part = "eof" => i = Len(cs)
              /\ (cs[i].part = "payload" /\ cs[i].bytes = w2.buf
                    /\ w2.buf # <<>>)
                   => cs[i].em > last[h].em
         /\ cs[Len(cs)].part = "eof"
         /\ offset[h] = w1.offset + Len(w1.chunk) + Len(w1.buf) + Len(w2.buf)

\* The three-chunk case: the large write found bytes in the buffer and the
\* small write was not empty.
C17_Witness ==
  \E h \in Handles :
    /\ LargeSmallClose(h)
    /\ state[h] = "freed"
    /\ last[h].before[Len(last[h].before) - 1].chunk # <<>>
    /\ last[h].before[Len(last[h].before)].buf # <<>>
    /\ Len(PayloadsSinceLarge(h)) = 3

(***************************************************************************)
(* C18.  Every sink call is made by the thread that holds the mutex, which *)
(* keeps it; it belongs to the emission the thread is in; no earlier sink  *)
(* call of that emission has returned -1 (so nothing follows a failed call *)
(* and no call is made twice); and the calls of a chunk emission come in   *)
(* the order header, sparse map, payload, the sparse map call passing the  *)
(* encoded map (no bytes when there is no map) and the payload call the    *)
(* payload.                                                                *)
(***************************************************************************)
C18_HeaderMapPayload ==
  [][sink' # sink =>
       LET e == sink'[Len(sink')]
           h == e.file
           cs == CallsAfter(h, nemit[h] - 1)
       IN /\ sink' = Append(sink, e)
          /\ mutex = h /\ mutex' = h
          /\ e.em = nemit[h]
          /\ \A i \in 1..Len(cs) : cs[i].ret # -1
          /\ IF call[h] = "eof"
               THEN cs = <<>> /\ e.part = "eof"
               ELSE /\ Len(cs) < 3
                    /\ e.part = <<"hdr", "map", "payload">>[Len(cs) + 1]
                    /\ e.part = "hdr" =>
                         ParseHeader(e.bytes).size = Len(e.bytes)
                    /\ e.part = "map" =>
                         /\ e.bytes = EncodeSparseMap(emap[h])
                         /\ (e.bytes = <<>>) = (emap[h] = <<>>)
                    /\ e.part = "payload" => e.bytes = ebuf[h]]_vars

\* The emission of a sparse chunk has failed at its sparse map call, after
\* its header call: no payload call follows.
C18_Witness ==
  \E h \in Handles :
    /\ pc[h] = "err"
    /\ mutex = h
    /\ emap[h] # <<>>
    /\ sink[Len(sink)].file = h
    /\ sink[Len(sink)].part = "map"
    /\ sink[Len(sink)].ret = -1
    /\ Len(CallsAfter(h, nemit[h] - 1)) = 2

(***************************************************************************)
(* C19.  In every state, each open handle has buffered bytes and free      *)
(* bytes adding up to XB_STREAM_MIN_CHUNK_SIZE and at least one free byte  *)
(* (its buffer is never full); and every step that ends a successful       *)
(* flush leaves the buffer empty with XB_STREAM_MIN_CHUNK_SIZE bytes free. *)
(***************************************************************************)
C19_BufferNeverFull ==
  /\ [](\A h \in Handles :
         state[h] = "open" =>
           /\ Len(chunk[h]) + chunk_free[h] = XB_STREAM_MIN_CHUNK_SIZE
           /\ chunk_free[h] >= 1)
  /\ [][\A h \in Handles :
          (pc[h] = "ok" /\ call[h] = "flush" /\ pc'[h] # "ok") =>
            /\ chunk[h] # <<>>
            /\ chunk'[h] = <<>>
            /\ chunk_free'[h] = XB_STREAM_MIN_CHUNK_SIZE]_vars

\* A write has found the buffer with one free byte only, its flush has
\* succeeded, and the handle is open with an empty buffer.
C19_Witness ==
  \E h \in Handles :
    /\ state[h] = "open"
    /\ pc[h] = "idle"
    /\ ret[h] = "0"
    /\ last[h].op = "write"
    /\ last[h].chunk_free = 1
    /\ Len(last[h].buf) >= 1
    /\ nemit[h] = last[h].em + 2
    /\ chunk[h] = <<>>
    /\ chunk_free[h] = XB_STREAM_MIN_CHUNK_SIZE

\* Whether the call recorded in r starts with the flush of a non-empty
\* buffer: write_sparse and close always flush, write when it does not buffer.
FlushesBuffer(r) ==
  /\ r.op \in {"write", "sparse", "close"}
  /\ r.chunk # <<>>
  /\ r.op = "write" => Len(r.buf) >= r.chunk_free

\* Whether the flush the call recorded in r started with has failed: a sink
\* call of the first emission of thread h after the call returned -1.
FlushFailed(h, r) ==
  /\ FlushesBuffer(r)
  /\ \E i \in 1..Len(sink) :
       sink[i].file = h /\ sink[i].em = r.em + 1 /\ sink[i].ret = -1

\* The sink calls cs are those of an emission, as far as it got, of one 'P'
\* chunk with payload bytes at offset off.
EmitsBuffer(cs, bytes, off) ==
  /\ Len(cs) <= 3
  /\ \A i \in 1..Len(cs) :
       /\ cs[i].part = <<"hdr", "map", "payload">>[i]
       /\ i = 1 => LET hd == ParseHeader(cs[i].bytes) IN
                     /\ hd.type = XB_CHUNK_TYPE_PAYLOAD
                     /\ hd.len = Len(bytes)
                     /\ hd.offset = off
       /\ i = 2 => cs[i].bytes = <<>>
       /\ i = 3 => cs[i].bytes = bytes

(***************************************************************************)
(* C20.  When the flush of a non-empty buffer has failed in the last call  *)
(* of a thread, the call has returned failure, the only sink calls made    *)
(* since the call are those of the one emission of the buffer (nothing of  *)
(* the data given to the call), the offset is the one the call found, and  *)
(* after write and write_sparse the handle is open with the buffer and     *)
(* chunk_free the call found (close has freed the handle).  When a flush   *)
(* has been written, its emission is one 'P' chunk whose payload is the    *)
(* whole buffer and whose offset is the handle's; when it is the first     *)
(* emission made after a call whose flush failed, the buffer holds first   *)
(* the bytes and the offset is the offset that call found.                 *)
(***************************************************************************)
C20_FailedFlushKeepsBuffer ==
  \A h \in Handles :
    /\ (pc[h] = "idle" /\ FlushFailed(h, last[h])) =>
         /\ ret[h] = "1"
         /\ nemit[h] = last[h].em + 1
         /\ EmitsBuffer(CallsAfter(h, last[h].em), last[h].chunk,
                        last[h].offset)
         /\ offset[h] = last[h].offset
         /\ IF last[h].op = "close" THEN state[h] = "freed"
            ELSE /\ state[h] = "open"
                 /\ chunk[h] = last[h].chunk
                 /\ chunk_free[h] = last[h].chunk_free
    /\ (pc[h] = "ok" /\ call[h] = "flush") =>
         LET cs == CallsAfter(h, nemit[h] - 1)
             n == Len(last[h].before)
         IN /\ Len(cs) = 3
            /\ EmitsBuffer(cs, chunk[h], offset[h])
            /\ \A i \in 1..n :
                 (/\ FlushFailed(h, last[h].before[i])
                  /\ nemit[h] = last[h].before[i].em + 2) =>
                   /\ offset[h] = last[h].before[i].offset
                   /\ Len(chunk[h]) >= Len(last[h].before[i].chunk)
                   /\ SubSeq(chunk[h], 1, Len(last[h].before[i].chunk))
                        = last[h].before[i].chunk

\* A write has failed in the flush of its buffer, and the close after it
\* has written the buffer: the flush of the close is about to return.
C20_Witness ==
  \E h \in Handles :
    /\ pc[h] = "ok"
    /\ call[h] = "flush"
    /\ last[h].op = "close"
    /\ Len(last[h].before) >= 1
    /\ LET r == last[h].before[Len(last[h].before)] IN
         /\ r.op = "write"
         /\ FlushFailed(h, r)
         /\ nemit[h] = r.em + 2
         /\ chunk[h] = r.chunk

====
